---- MODULE Spec2Model ----
(***************************************************************************)
(* A model of the security demos of the repository.                        *)
(*                                                                         *)
(*   SpecRbac  the two role-based demos, src/05-security/main.py (the      *)
(*             concert API) and src/security/main.py (the bank demo with   *)
(*             an audit log).  The two files hold the same handlers; the   *)
(*             variable app says which of them is running.                 *)
(*   SpecBank  src/09-security/main.py: registration, login with lockout,  *)
(*             MFA setup, balances and transfers, all requests made within *)
(*             ten minutes.  SpecLogin and SpecMfa follow part of its      *)
(*             endpoints while the clock advances.                         *)
(*                                                                         *)
(* Time is counted in minutes.                                             *)
(* A request is one atomic step: no handler awaits between its first read  *)
(* and its last write, so the event loop never interleaves two handlers.   *)
(***************************************************************************)
EXTENDS Integers, Sequences, FiniteSets, TLC

VARIABLES
    app,            \* which demo is running
    now,            \* the clock, in minutes since start
    resp,           \* the last request with the response it got
    db_users,       \* 05-security, security: username -> UserInDB
    audit_log,      \* security: the list of audit entries
    login_hits,     \* slowapi: hits of /auth/login in the current window
    users_db,       \* 09-security: username -> UserInDB
    user_accounts,  \* 09-security: user id -> list of Account
    transactions_db,        \* 09-security: the list of Transaction
    active_mfa_challenges,  \* 09-security: challenge id -> challenge
    challenges_made,        \* 09-security: how many challenge ids uuid4 has given
    active_connections,     \* ConnectionManager: the list of websockets of the room
    handlers                \* websocket -> where its endpoint coroutine stands

rbacVars == <<db_users, audit_log, login_hits>>
bankVars == <<users_db, user_accounts, transactions_db, active_mfa_challenges,
              challenges_made>>
chatVars == <<active_connections, handlers>>
vars == <<app, now, resp, rbacVars, bankVars, chatVars>>

(***************************************************************************)
(* Bounds of the model.                                                    *)
(***************************************************************************)
MaxTime == 60
MaxAudit == 2
MaxBankTime == 20
MaxFailed == 5
MaxChallenges == 1
MaxTransactions == 2
MaxLookupId == 40

(***************************************************************************)
(* Values.                                                                 *)
(***************************************************************************)
Null == "<null>"

Usernames == {"alice"}
Passwords == {"alice-pw-1", "other-pw-2"}

NoToken == [key |-> Null, sub |-> Null, subtype |-> Null, username |-> Null,
            role |-> Null, exp |-> 0]
NoUser == [username |-> Null, email |-> Null, role |-> Null]
NoReq == [username |-> Null, email |-> Null, password |-> Null, token |-> NoToken]

(***************************************************************************)
(* The two role-based demos differ in their names only.                    *)
(***************************************************************************)
Apps == {"05-security", "security"}

SECRET_KEY == "a-very-secret-key-that-should-be-in-a-env-file"
ACCESS_TOKEN_EXPIRE_MINUTES == 30
LoginLimit == 5

\* class UserRole
UserRole(a) == IF a = "05-security" THEN {"guest", "organizer"}
               ELSE {"customer", "admin"}

\* the role register_user gives: UserRole.GUEST, UserRole.CUSTOMER
DefaultRole(a) == IF a = "05-security" THEN "guest" ELSE "customer"

\* the role of require_roles([...]) on the restricted endpoint
RequiredRoles(a) == IF a = "05-security" THEN {"organizer"} ELSE {"admin"}

\* the user the __main__ block puts into db_users before the server starts
DemoUsername(a) == IF a = "05-security" THEN "organizer" ELSE "admin"
DemoPassword(a) == IF a = "05-security" THEN "OrganizerPass123!" ELSE "AdminPass123!"

\* pwd_context.hash: a bcrypt digest, never the password itself.  The random
\* salt is left out: verify does not depend on it.
get_password_hash(password) == <<"$2b$", password>>

\* pwd_context.verify
verify_password(plain_password, hashed_password) ==
    hashed_password = get_password_hash(plain_password)

DemoUser(a) == [username |-> DemoUsername(a),
                email |-> "demo@x.io",
                role |-> CHOOSE r \in RequiredRoles(a) : TRUE,
                hashed_password |-> get_password_hash(DemoPassword(a))]

\* a response model that lets every field of the stored user through
User_unfiltered(u) == u
\* response_model=User: the fields of User, without hashed_password
User(u) == [username |-> u.username, email |-> u.email, role |-> u.role]

(***************************************************************************)
(* Tokens.  A token is its payload with the key that signed it; a string   *)
(* that is no JWT at all behaves as a token signed with another key.       *)
(***************************************************************************)
\* create_access_token: the data, the expiry, signed with SECRET_KEY
create_access_token(sub, role, t) ==
    [key |-> SECRET_KEY, sub |-> sub, subtype |-> "str", username |-> Null,
     role |-> role, exp |-> t + ACCESS_TOKEN_EXPIRE_MINUTES]

\* jwt.decode(token, SECRET_KEY, algorithms=[ALGORITHM]): the signature, then
\* the exp claim (expired once the clock is past it), then the type of sub.
\* FALSE stands for JWTError.
jwt_decode(token, key, t) ==
    /\ token.key = key
    /\ token.exp >= t
    /\ token.sub # Null => token.subtype = "str"

\* TokenData(username=username, role=role): role is Optional[UserRole]
TokenData_valid(a, role) == role = Null \/ role \in UserRole(a)

\* get_current_user: the status and, with 200, the db_users entry.  500 is the
\* pydantic ValidationError of TokenData, which except JWTError does not catch.
NoUserInDB == [username |-> Null, email |-> Null, role |-> Null,
               hashed_password |-> <<Null, Null>>]

get_current_user(token) ==
    IF ~jwt_decode(token, SECRET_KEY, now)
    THEN [status |-> 401, user |-> NoUserInDB]
    ELSE IF token.sub = Null
    THEN [status |-> 401, user |-> NoUserInDB]
    ELSE IF ~TokenData_valid(app, token.role)
    THEN [status |-> 500, user |-> NoUserInDB]
    ELSE IF token.sub \notin DOMAIN db_users
    THEN [status |-> 401, user |-> NoUserInDB]
    ELSE [status |-> 200, user |-> db_users[token.sub]]

\* a role_checker that lets every role of the enumeration through
role_checker_any_role(current_user, required_roles) ==
    current_user.role \in UserRole(app)

\* require_roles(required_roles).role_checker, after get_current_user
role_checker(current_user, required_roles) ==
    current_user.role \in required_roles

(***************************************************************************)
(* log_security_event (security only): one more entry at the end of        *)
(* audit_log.  The timestamp and the client address are left out.          *)
(***************************************************************************)
log_security_event(log, event_type, username, details) ==
    IF app = "security"
    THEN Append(log, [event_type |-> event_type, username |-> username,
                      details |-> details])
    ELSE log

CanLog == app = "security" => Len(audit_log) < MaxAudit

(***************************************************************************)
(* The requests the clients send.                                          *)
(***************************************************************************)
\* the bodies posted to /auth/register: two for the same username, one with a
\* username that is too short, one with a password that is too short.  The
\* second body asks for a role; UserCreate has no such field and drops it.
RegisterForms ==
    {[username |-> "alice", email |-> "a@x.io", password |-> "alice-pw-1",
      role |-> Null],
     [username |-> "alice", email |-> "b@x.io", password |-> "other-pw-2",
      role |-> "admin"],
     [username |-> "al", email |-> "a@x.io", password |-> "alice-pw-1",
      role |-> Null],
     [username |-> "alice", email |-> "a@x.io", password |-> "short",
      role |-> Null]}
LoginUsernames(a) == Usernames \cup {DemoUsername(a)}
LoginPasswords(a) == Passwords \cup {DemoPassword(a)}
RoleClaims(a) == RequiredRoles(a) \cup {"superuser", Null}
ExpClaims == {e \in {now - 30, now, now + ACCESS_TOKEN_EXPIRE_MINUTES} : e >= 0}

\* Tokens carrying any payload under the server's key (an old token, a token
\* of another deployment with the same key), and tokens made without the key.
BearerTokens(a) ==
    [key : {SECRET_KEY}, sub : LoginUsernames(a) \cup {Null}, subtype : {"str"},
     username : {Null}, role : RoleClaims(a), exp : ExpClaims]
    \cup
    [key : {"attacker-key"}, sub : LoginUsernames(a), subtype : {"str"},
     username : {Null}, role : RequiredRoles(a),
     exp : {now + ACCESS_TOKEN_EXPIRE_MINUTES}]

Response(op, req, status, token, user, names, log) ==
    [op |-> op, req |-> req, status |-> status, token |-> token, user |-> user,
     names |-> names, log |-> log, detail |-> Null, balance |-> -1]

(***************************************************************************)
(* POST /auth/register                                                     *)
(***************************************************************************)
\* UserCreate: username 3..50 characters, password at least 8
UserCreate_valid(username, password) ==
    /\ Len(username) >= 3
    /\ Len(username) <= 50
    /\ Len(password) >= 8

\* a registration that never finds the username taken
username_never_taken(username) == FALSE
\* user_data.username in db_users
username_taken(username) == username \in DOMAIN db_users

register_user(username, email, password) ==
    LET req == [NoReq EXCEPT !.username = username, !.email = email,
                             !.password = password]
        user_in_db == [username |-> username, email |-> email,
                       role |-> DefaultRole(app),
                       hashed_password |-> get_password_hash(password)]
    IN  /\ app \in Apps
        /\ IF ~UserCreate_valid(username, password)
           THEN /\ resp' = Response("register", req, 422, NoToken, NoUser, {}, <<>>)
                /\ UNCHANGED <<db_users, audit_log>>
           ELSE IF username_taken(username)
           THEN /\ resp' = Response("register", req, 400, NoToken, NoUser, {}, <<>>)
                /\ UNCHANGED <<db_users, audit_log>>
           ELSE /\ CanLog
                /\ db_users' = [u \in DOMAIN db_users \cup {username} |->
                                   IF u = username THEN user_in_db ELSE db_users[u]]
                /\ audit_log' = log_security_event(audit_log, "registration",
                                    username, {<<"email", email>>})
                /\ resp' = Response("register", req, 201, NoToken,
                                    User(user_in_db), {}, <<>>)
        /\ UNCHANGED <<app, chatVars, now, login_hits, bankVars>>

(***************************************************************************)
(* POST /auth/login, @limiter.limit("5/minute")                            *)
(***************************************************************************)
\* the limiter lets LoginLimit requests of one client through per window
limiter_allows(hits, limit) == hits < limit

\* a credential check that forgets the password
credentials_ok_any_password(username, password) ==
    username \in DOMAIN db_users

\* user = db_users.get(username); not (not user or not verify_password(...))
credentials_ok(username, password) ==
    /\ username \in DOMAIN db_users
    /\ verify_password(password, db_users[username].hashed_password)

login_for_access_token(username, password) ==
    LET req == [NoReq EXCEPT !.username = username, !.password = password]
    IN  /\ app \in Apps
        /\ IF ~limiter_allows(login_hits, LoginLimit)
           THEN /\ resp' = Response("login", req, 429, NoToken, NoUser, {}, <<>>)
                /\ UNCHANGED <<audit_log, login_hits>>
           ELSE /\ login_hits' = login_hits + 1
                /\ CanLog
                /\ IF ~credentials_ok(username, password)
                   THEN /\ audit_log' = log_security_event(audit_log, "login_failed",
                                 username, {<<"reason", "invalid_credentials">>})
                        /\ resp' = Response("login", req, 401, NoToken, NoUser, {}, <<>>)
                   ELSE /\ audit_log' = log_security_event(audit_log, "login_success",
                                 username, {})
                        /\ resp' = Response("login", req, 200,
                                 create_access_token(username, db_users[username].role, now),
                                 NoUser, {}, <<>>)
        /\ UNCHANGED <<app, chatVars, now, db_users, bankVars>>

(***************************************************************************)
(* GET /attendees/me, GET /users/me                                        *)
(***************************************************************************)
read_users_me(token) ==
    LET req == [NoReq EXCEPT !.token = token]
        auth == get_current_user(token)
    IN  /\ app \in Apps
        /\ resp' = Response("me", req, auth.status, NoToken,
                            IF auth.status = 200 THEN User(auth.user) ELSE NoUser,
                            {}, <<>>)
        /\ UNCHANGED <<app, chatVars, now, db_users, audit_log, login_hits, bankVars>>

(***************************************************************************)
(* GET /organizer/guest-list (05-security)                                 *)
(***************************************************************************)
get_guest_list(token) ==
    LET req == [NoReq EXCEPT !.token = token]
        auth == get_current_user(token)
    IN  /\ app = "05-security"
        /\ resp' = IF auth.status # 200
                   THEN Response("guest-list", req, auth.status, NoToken, NoUser, {}, <<>>)
                   ELSE IF ~role_checker(auth.user, RequiredRoles(app))
                   THEN Response("guest-list", req, 403, NoToken, NoUser, {}, <<>>)
                   ELSE Response("guest-list", req, 200, NoToken, NoUser,
                                 DOMAIN db_users, <<>>)
        /\ UNCHANGED <<app, chatVars, now, db_users, audit_log, login_hits, bankVars>>

(***************************************************************************)
(* GET /admin/audit-log (security)                                         *)
(***************************************************************************)
get_audit_log(token) ==
    LET req == [NoReq EXCEPT !.token = token]
        auth == get_current_user(token)
        logged == log_security_event(audit_log, "audit_log_accessed",
                                     auth.user.username, {})
    IN  /\ app = "security"
        /\ IF auth.status # 200
           THEN /\ resp' = Response("audit-log", req, auth.status, NoToken, NoUser, {}, <<>>)
                /\ UNCHANGED audit_log
           ELSE IF ~role_checker(auth.user, RequiredRoles(app))
           THEN /\ resp' = Response("audit-log", req, 403, NoToken, NoUser, {}, <<>>)
                /\ UNCHANGED audit_log
           ELSE /\ CanLog
                /\ audit_log' = logged
                /\ resp' = Response("audit-log", req, 200, NoToken, NoUser, {}, logged)
        /\ UNCHANGED <<app, chatVars, now, db_users, login_hits, bankVars>>

(***************************************************************************)
(* Half an hour passes: the one-minute window of the limiter has ended.    *)
(***************************************************************************)
Tick ==
    /\ now + 30 <= MaxTime
    /\ now' = now + 30
    /\ login_hits' = 0
    /\ UNCHANGED <<app, chatVars, resp, db_users, audit_log, bankVars>>

(***************************************************************************)
(* The role-based demos: started as a script (the demo user is in          *)
(* db_users) or served by an ASGI server (db_users is empty).              *)
(***************************************************************************)
NoResponse == Response("none", NoReq, 0, NoToken, NoUser, {}, <<>>)

InitRbac ==
    /\ app \in Apps
    /\ now = 0
    /\ resp = NoResponse
    /\ active_connections = <<>>
    /\ handlers = <<>>
    /\ \E as_script \in BOOLEAN :
          db_users = IF as_script
                     THEN [u \in {DemoUsername(app)} |-> DemoUser(app)]
                     ELSE [u \in {} |-> NoUserInDB]
    /\ audit_log = <<>>
    /\ login_hits = 0
    /\ users_db = <<>>
    /\ user_accounts = <<>>
    /\ transactions_db = <<>>
    /\ active_mfa_challenges = <<>>
    /\ challenges_made = 0

NextRbac ==
    \/ \E f \in RegisterForms : register_user(f.username, f.email, f.password)
    \/ \E u \in LoginUsernames(app), p \in LoginPasswords(app) : login_for_access_token(u, p)
    \/ \E t \in BearerTokens(app) : read_users_me(t)
    \/ \E t \in BearerTokens(app) : get_guest_list(t)
    \/ \E t \in BearerTokens(app) : get_audit_log(t)
    \/ Tick

SpecRbac == InitRbac /\ [][NextRbac]_vars

(***************************************************************************)
(* src/09-security/main.py.  Money is counted in whole dollars.  The audit *)
(* log of this app, which no handler reads back into a decision, is left   *)
(* out.                                                                    *)
(***************************************************************************)
BANK_SECRET_KEY == "your-super-secret-key-change-in-production"
LockThreshold == 5
MfaChallengeMinutes == 10
DailyLimit == 5000
MinDeposit == 100
MaxDeposit == 10000
MaxTransferAmount == 10000
MinPasswordLength == 12

BankRoles == {"customer", "premium_customer", "business_customer", "teller",
              "manager", "admin", "auditor", "system"}

BankUsernames == {"alice", "bob"}
AlicePassword == "Alice-Passw0rd!"
BobPassword == "Bobby-Passw0rd!"

\* the bodies posted to /auth/register; the last one is below the deposit range
BankRegisterForms ==
    {[username |-> "alice", email |-> "a@x.io", password |-> AlicePassword,
      confirm_password |-> AlicePassword, role |-> "customer",
      initial_deposit |-> 10000],
     [username |-> "bob", email |-> "b@x.io", password |-> BobPassword,
      confirm_password |-> BobPassword, role |-> "customer",
      initial_deposit |-> 3000],
     [username |-> "bob", email |-> "a@x.io", password |-> BobPassword,
      confirm_password |-> AlicePassword, role |-> "customer",
      initial_deposit |-> 50]}

\* UserCreate: the lengths, confirm_password, the range of initial_deposit
BankUserCreate_valid(f) ==
    /\ Len(f.username) >= 3
    /\ Len(f.username) <= 30
    /\ Len(f.password) >= MinPasswordLength
    /\ f.confirm_password = f.password
    /\ f.role \in BankRoles
    /\ f.initial_deposit >= MinDeposit
    /\ f.initial_deposit <= MaxDeposit

\* str(uuid.uuid4()) of the account made for user user_id: a fresh name
AccountId(user_id) == <<"account", user_id>>
\* str(uuid.uuid4()) of the n-th MFA challenge: a fresh name
ChallengeId(n) == <<"challenge", n>>
\* the code secrets.randbelow gives, and the codes a client submits
GeneratedCodes == {"123456"}
MfaCodes == {"123456", "654321"}
MfaMethods == {"sms"}

\* a request and its answer: the operation, the credentials it named (login and
\* register), the status, the reason of a refusal, the token and the balance
BankResponse(op, req, status, detail, token, balance) ==
    [op |-> op, username |-> req.username, password |-> req.password,
     status |-> status, detail |-> detail, token |-> token, balance |-> balance]

(***************************************************************************)
(* Tokens and dependencies.                                                *)
(***************************************************************************)
\* create_access_token(data={"sub": user.id, "username": ..., "role": ...}):
\* sub is the integer id
bank_create_access_token(user, t) ==
    [key |-> BANK_SECRET_KEY, sub |-> ToString(user.id), subtype |-> "int",
     username |-> user.username, role |-> user.role,
     exp |-> t + ACCESS_TOKEN_EXPIRE_MINUTES]

\* TokenData(user_id=..., role=UserRole(role) if role else None): user_id must
\* be an integer or digits, role a UserRole value
BankTokenData_valid(token) ==
    /\ token.sub \in {ToString(i) : i \in 0..9}
    /\ token.role = Null \/ token.role \in BankRoles

\* verify_token: 401 for JWTError and for a missing sub; 500 stands for the
\* errors of TokenData and UserRole(role), which it does not catch
verify_token(token) ==
    IF ~jwt_decode(token, BANK_SECRET_KEY, now) THEN 401
    ELSE IF token.sub = Null THEN 401
    ELSE IF ~BankTokenData_valid(token) THEN 500
    ELSE 200

Denied(status, detail) == [status |-> status, detail |-> detail, username |-> Null]

\* get_current_user: users_db.get(token_data.username)
bank_get_current_user(token) ==
    IF verify_token(token) # 200
    THEN Denied(verify_token(token), "credentials")
    ELSE IF token.username \notin DOMAIN users_db
    THEN Denied(401, "user_not_found")
    ELSE [status |-> 200, detail |-> Null, username |-> token.username]

\* get_current_active_user
get_current_active_user(token) ==
    LET current_user == bank_get_current_user(token)
    IN  IF current_user.status # 200 THEN current_user
        ELSE IF ~users_db[current_user.username].is_active
        THEN Denied(400, "suspended")
        ELSE current_user

require_mfa_skipped(token) == get_current_active_user(token)
\* require_mfa
require_mfa(token) ==
    LET current_user == get_current_active_user(token)
    IN  IF current_user.status # 200 THEN current_user
        ELSE IF ~users_db[current_user.username].mfa_enabled
        THEN Denied(403, "mfa_required")
        ELSE current_user

(***************************************************************************)
(* POST /auth/register, @limiter.limit("3/minute").  limited is the        *)
(* verdict of the limiter: it refuses a client that has used the requests  *)
(* of its window.  Requests that fail validation are not counted, so the   *)
(* first refusal comes after a registration.                               *)
(***************************************************************************)
never_registered(f) == FALSE
\* if user_data.username in users_db or any(u.email == user_data.email ...)
already_registered(f) ==
    \/ f.username \in DOMAIN users_db
    \/ \E u \in DOMAIN users_db : users_db[u].email = f.email

bank_register_user(f, limited) ==
    LET req == [NoReq EXCEPT !.username = f.username]
        user_id == Cardinality(DOMAIN users_db) + 1
        new_user == [id |-> user_id, username |-> f.username, email |-> f.email,
                     role |-> f.role,
                     hashed_password |-> get_password_hash(f.password),
                     is_active |-> TRUE, failed_login_attempts |-> 0,
                     mfa_enabled |-> FALSE, mfa_methods |-> <<>>]
        new_account == [id |-> AccountId(user_id), user_id |-> user_id,
                        balance |-> f.initial_deposit, daily_limit |-> DailyLimit]
    IN  /\ app = "09-security"
        /\ limited => users_db # <<>>
        /\ IF ~BankUserCreate_valid(f)
           THEN /\ resp' = BankResponse("register", req, 422, "validation", NoToken, -1)
                /\ UNCHANGED <<users_db, user_accounts>>
           ELSE IF limited
           THEN /\ resp' = BankResponse("register", req, 429, "rate_limit", NoToken, -1)
                /\ UNCHANGED <<users_db, user_accounts>>
           ELSE IF already_registered(f)
           THEN /\ resp' = BankResponse("register", req, 400, "duplicate", NoToken, -1)
                /\ UNCHANGED <<users_db, user_accounts>>
           ELSE /\ users_db' = [u \in DOMAIN users_db \cup {f.username} |->
                                   IF u = f.username THEN new_user ELSE users_db[u]]
                /\ user_accounts' = [i \in DOMAIN user_accounts \cup {user_id} |->
                                   IF i = user_id THEN <<new_account>>
                                   ELSE user_accounts[i]]
                /\ resp' = BankResponse("register", req, 201, "created", NoToken,
                                        f.initial_deposit)
        /\ UNCHANGED <<app, chatVars, now, rbacVars, transactions_db, active_mfa_challenges,
                       challenges_made>>

(***************************************************************************)
(* POST /auth/login, @limiter.limit("5/minute")                            *)
(***************************************************************************)
failed_login_never_locks(user) ==
    [user EXCEPT !.failed_login_attempts = @ + 1]
\* the failed branch: count the attempt, lock the account at the threshold
failed_login(user) ==
    [user EXCEPT !.failed_login_attempts = @ + 1,
                 !.is_active = IF user.failed_login_attempts + 1 >= LockThreshold
                               THEN FALSE ELSE @]

login_user(username, password, limited) ==
    LET req == [NoReq EXCEPT !.username = username, !.password = password]
        known == username \in DOMAIN users_db
    IN  /\ app = "09-security"
        /\ IF limited
           THEN /\ resp' = BankResponse("login", req, 429, "rate_limit", NoToken, -1)
                /\ UNCHANGED users_db
           ELSE IF ~known
           THEN /\ resp' = BankResponse("login", req, 401, "credentials", NoToken, -1)
                /\ UNCHANGED users_db
           ELSE IF ~verify_password(password, users_db[username].hashed_password)
           THEN /\ users_db[username].failed_login_attempts < MaxFailed
                /\ users_db' = [users_db EXCEPT ![username] = failed_login(@)]
                /\ resp' = BankResponse("login", req, 401, "credentials", NoToken, -1)
           ELSE IF ~users_db[username].is_active
           THEN /\ resp' = BankResponse("login", req, 403, "locked", NoToken, -1)
                /\ UNCHANGED users_db
           ELSE /\ users_db' = [users_db EXCEPT ![username].failed_login_attempts = 0]
                /\ resp' = BankResponse("login", req, 200, "token",
                               bank_create_access_token(users_db[username], now), -1)
        /\ UNCHANGED <<app, chatVars, now, rbacVars, user_accounts, transactions_db,
                       active_mfa_challenges, challenges_made>>

(***************************************************************************)
(* The bearer tokens a client may send: any payload signed with the key    *)
(* (the first two carry a string sub, the third is the shape login_user    *)
(* issues), and a token signed with another key.                           *)
(***************************************************************************)
BankToken(key, subtype, username, role, exp) ==
    [key |-> key, sub |-> "1", subtype |-> subtype, username |-> username,
     role |-> role, exp |-> exp]

BankBearerTokens ==
    {BankToken(BANK_SECRET_KEY, "str", u, "customer", now + ACCESS_TOKEN_EXPIRE_MINUTES) :
        u \in BankUsernames}
    \cup {BankToken(BANK_SECRET_KEY, "int", "alice", "customer", now + ACCESS_TOKEN_EXPIRE_MINUTES),
          BankToken(BANK_SECRET_KEY, "str", "alice", "customer", now - 10),
          BankToken(BANK_SECRET_KEY, "str", "alice", "superuser", now + ACCESS_TOKEN_EXPIRE_MINUTES),
          BankToken("attacker-key", "str", "alice", "customer", now + ACCESS_TOKEN_EXPIRE_MINUTES)}

(***************************************************************************)
(* POST /auth/mfa/setup and POST /auth/mfa/verify                          *)
(***************************************************************************)
setup_mfa(token, method, code) ==
    LET current_user == get_current_active_user(token)
        challenge_id == ChallengeId(challenges_made + 1)
        challenge == [user_id |-> users_db[current_user.username].id,
                      method |-> method, code |-> code,
                      expires_at |-> now + MfaChallengeMinutes]
    IN  /\ app = "09-security"
        /\ IF current_user.status # 200
           THEN /\ resp' = BankResponse("setup_mfa", NoReq, current_user.status,
                                        current_user.detail, NoToken, -1)
                /\ UNCHANGED <<active_mfa_challenges, challenges_made>>
           ELSE /\ challenges_made < MaxChallenges
                /\ challenges_made' = challenges_made + 1
                /\ active_mfa_challenges' =
                       [c \in DOMAIN active_mfa_challenges \cup {challenge_id} |->
                           IF c = challenge_id THEN challenge
                           ELSE active_mfa_challenges[c]]
                /\ resp' = BankResponse("setup_mfa", NoReq, 200, "challenge", NoToken, -1)
        /\ UNCHANGED <<app, chatVars, now, rbacVars, users_db, user_accounts, transactions_db>>

challenge_never_expires(expires_at, t) == FALSE
\* datetime.utcnow() > mfa_challenge["expires_at"]
challenge_expired(expires_at, t) == t > expires_at

\* del active_mfa_challenges[challenge_id]
del_challenge(challenges, challenge_id) ==
    [c \in DOMAIN challenges \ {challenge_id} |-> challenges[c]]

\* the checks of verify_mfa in the order of the code; the outcome carries
\* the users and the challenges the request leaves behind
verify_mfa_result(token, challenge_id, code, method) ==
    LET current_user == get_current_active_user(token)
        unchanged(status, detail) ==
            [status |-> status, detail |-> detail, users_db |-> users_db,
             active_mfa_challenges |-> active_mfa_challenges]
    IN  IF current_user.status # 200
        THEN unchanged(current_user.status, current_user.detail)
        ELSE IF challenge_id \notin DOMAIN active_mfa_challenges
        THEN unchanged(400, "invalid_challenge_id")
        ELSE IF active_mfa_challenges[challenge_id].user_id
                  # users_db[current_user.username].id
        THEN unchanged(403, "challenge_user_mismatch")
        ELSE IF challenge_expired(active_mfa_challenges[challenge_id].expires_at, now)
        THEN [status |-> 400, detail |-> "challenge_expired", users_db |-> users_db,
              active_mfa_challenges |->
                  del_challenge(active_mfa_challenges, challenge_id)]
        ELSE IF code # active_mfa_challenges[challenge_id].code
        THEN unchanged(400, "invalid_code")
        ELSE [status |-> 200, detail |-> "mfa_enabled",
              users_db |-> [users_db EXCEPT
                  ![current_user.username].mfa_enabled = TRUE,
                  ![current_user.username].mfa_methods =
                      IF \E i \in DOMAIN @ : @[i] = method THEN @
                      ELSE Append(@, method)],
              active_mfa_challenges |->
                  del_challenge(active_mfa_challenges, challenge_id)]

verify_mfa(token, challenge_id, code, method) ==
    \E result \in {verify_mfa_result(token, challenge_id, code, method)} :
        /\ app = "09-security"
        /\ users_db' = result.users_db
        /\ active_mfa_challenges' = result.active_mfa_challenges
        /\ resp' = BankResponse("verify_mfa", NoReq, result.status, result.detail,
                                NoToken, -1)
        /\ UNCHANGED <<app, chatVars, now, rbacVars, user_accounts, transactions_db,
                       challenges_made>>

(***************************************************************************)
(* GET /accounts/{account_id}/balance                                      *)
(***************************************************************************)
\* user_accounts.get(current_user.id, [])
user_account_list(username) ==
    IF users_db[username].id \in DOMAIN user_accounts
    THEN user_accounts[users_db[username].id] ELSE <<>>

find_account_any_id(list, account_id) == IF list = <<>> THEN 0 ELSE 1
\* next((acc for acc in user_account_list if acc.id == account_id), None):
\* the position of the first such account, 0 for None
find_account(list, account_id) ==
    LET hits == {i \in DOMAIN list : list[i].id = account_id}
    IN  IF hits = {} THEN 0 ELSE CHOOSE i \in hits : \A j \in hits : i <= j

get_account_balance_result(token, account_id) ==
    LET current_user == get_current_active_user(token)
    IN  IF current_user.status # 200
        THEN [status |-> current_user.status, detail |-> current_user.detail,
              balance |-> -1]
        ELSE LET list == user_account_list(current_user.username)
                 i == find_account(list, account_id)
             IN  IF i = 0
                 THEN [status |-> 403, detail |-> "access_denied", balance |-> -1]
                 ELSE [status |-> 200, detail |-> "balance",
                       balance |-> list[i].balance]

get_account_balance(token, account_id) ==
    \E result \in {get_account_balance_result(token, account_id)} :
        /\ app = "09-security"
        /\ resp' = BankResponse("balance", NoReq, result.status, result.detail,
                                NoToken, result.balance)
        /\ UNCHANGED <<app, chatVars, now, rbacVars, bankVars>>

(***************************************************************************)
(* POST /transactions/transfer, @limiter.limit("10/hour").  The user       *)
(* dependency (require_mfa) is resolved before the body is validated, and  *)
(* both before the limiter, which wraps the handler.  limited is the       *)
(* verdict of the limiter; the requests it has counted may all have been   *)
(* refused by the handler.                                                 *)
(***************************************************************************)
TransferAmounts == {3000, 6000}

\* TransferRequest: amount gt 0, le 10000
TransferRequest_valid(transfer) ==
    transfer.amount > 0 /\ transfer.amount <= MaxTransferAmount

Transaction(transfer) ==
    [from_account_id |-> transfer.from_account_id,
     to_account_id |-> transfer.to_account_id,
     amount |-> transfer.amount, status |-> "completed", created_at |-> now]

sufficient_funds_unchecked(balance, amount) == TRUE
\* the negation of: from_account.balance < transfer.amount
sufficient_funds(balance, amount) == ~(balance < amount)

\* the checks of transfer_funds in the order of the code; the outcome
\* carries the accounts and the transactions the request leaves behind
transfer_funds_result(token, transfer, limited) ==
    LET current_user == require_mfa(token)
        refused(status, detail) ==
            [status |-> status, detail |-> detail, user_accounts |-> user_accounts,
             transactions_db |-> transactions_db, new_balance |-> -1]
    IN  IF current_user.status # 200
        THEN refused(current_user.status, current_user.detail)
        ELSE IF ~TransferRequest_valid(transfer)
        THEN refused(422, "validation")
        ELSE IF limited
        THEN refused(429, "rate_limit")
        ELSE LET user_id == users_db[current_user.username].id
                 list == user_account_list(current_user.username)
                 i == find_account(list, transfer.from_account_id)
             IN  IF i = 0
                 THEN refused(403, "access_denied")
                 ELSE IF ~sufficient_funds(list[i].balance, transfer.amount)
                 THEN refused(400, "insufficient_funds")
                 ELSE IF transfer.amount > list[i].daily_limit
                 THEN refused(400, "limit_exceeded")
                 ELSE [status |-> 200, detail |-> "completed",
                       user_accounts |-> [user_accounts EXCEPT
                           ![user_id][i].balance = @ - transfer.amount],
                       transactions_db |-> Append(transactions_db, Transaction(transfer)),
                       new_balance |-> list[i].balance - transfer.amount]

transfer_funds(token, transfer, limited) ==
    \E result \in {transfer_funds_result(token, transfer, limited)} :
        /\ app = "09-security"
        /\ result.status = 200 => Len(transactions_db) < MaxTransactions
        /\ user_accounts' = result.user_accounts
        /\ transactions_db' = result.transactions_db
        /\ resp' = BankResponse("transfer", NoReq, result.status, result.detail,
                                NoToken, result.new_balance)
        /\ UNCHANGED <<app, chatVars, now, rbacVars, users_db, active_mfa_challenges,
                       challenges_made>>

\* ten minutes pass
BankTick ==
    /\ app = "09-security"
    /\ now + 10 <= MaxBankTime
    /\ now' = now + 10
    /\ UNCHANGED <<app, chatVars, resp, rbacVars, bankVars>>

(***************************************************************************)
(* The bank after import: the dictionaries and lists of lines 286-290 are  *)
(* empty.                                                                  *)
(***************************************************************************)
InitBank ==
    /\ app = "09-security"
    /\ now = 0
    /\ resp = NoResponse
    /\ db_users = <<>>
    /\ audit_log = <<>>
    /\ login_hits = 0
    /\ users_db = <<>>
    /\ user_accounts = <<>>
    /\ transactions_db = <<>>
    /\ active_mfa_challenges = <<>>
    /\ challenges_made = 0
    /\ active_connections = <<>>
    /\ handlers = <<>>

AccountIds == {AccountId(1), AccountId(2)}
\* the bodies posted to /transactions/transfer: from one account to the other,
\* and one body without a valid amount
TransferRequests ==
    {transfer \in [from_account_id : AccountIds, to_account_id : AccountIds,
                   amount : TransferAmounts] :
        transfer.from_account_id # transfer.to_account_id}
    \cup {[from_account_id |-> AccountId(1), to_account_id |-> AccountId(2), amount |-> 0]}
ChallengeIds == {ChallengeId(n) : n \in 1..MaxChallenges}
BankLogins ==
    {<<"alice", AlicePassword>>, <<"alice", BobPassword>>, <<"bob", BobPassword>>,
     <<"carol", AlicePassword>>}

\* registration, login and a read with the token, over time
NextLogin ==
    \/ \E f \in BankRegisterForms, limited \in BOOLEAN : bank_register_user(f, limited)
    \/ \E l \in BankLogins, limited \in BOOLEAN : login_user(l[1], l[2], limited)
    \/ \E token \in BankBearerTokens, account_id \in AccountIds :
           get_account_balance(token, account_id)
    \/ BankTick

SpecLogin == InitBank /\ [][NextLogin]_vars

\* registration, login and the two MFA endpoints, over time
NextMfa ==
    \/ \E f \in BankRegisterForms, limited \in BOOLEAN : bank_register_user(f, limited)
    \/ \E l \in BankLogins, limited \in BOOLEAN : login_user(l[1], l[2], limited)
    \/ \E token \in BankBearerTokens, method \in MfaMethods, code \in GeneratedCodes :
           setup_mfa(token, method, code)
    \/ \E token \in BankBearerTokens, challenge_id \in ChallengeIds,
          code \in MfaCodes, method \in MfaMethods :
           verify_mfa(token, challenge_id, code, method)
    \/ BankTick

SpecMfa == InitBank /\ [][NextMfa]_vars

\* every endpoint of the bank, all requests within the first ten minutes
NextBank ==
    \/ \E f \in BankRegisterForms, limited \in BOOLEAN : bank_register_user(f, limited)
    \/ \E l \in BankLogins, limited \in BOOLEAN : login_user(l[1], l[2], limited)
    \/ \E token \in BankBearerTokens, method \in MfaMethods, code \in GeneratedCodes :
           setup_mfa(token, method, code)
    \/ \E token \in BankBearerTokens, challenge_id \in ChallengeIds,
          code \in MfaCodes, method \in MfaMethods :
           verify_mfa(token, challenge_id, code, method)
    \/ \E token \in BankBearerTokens, account_id \in AccountIds :
           get_account_balance(token, account_id)
    \/ \E token \in BankBearerTokens, transfer \in TransferRequests, limited \in BOOLEAN :
           transfer_funds(token, transfer, limited)

SpecBank == InitBank /\ [][NextBank]_vars

(***************************************************************************)
(* Claims about the role-based demos (SpecRbac).                           *)
(***************************************************************************)
\* a step in which the endpoint op answered a request
Answered(op) == resp'.op = op /\ now' = now

\* C1: read_users_me answers 200, with the public fields of the db_users entry,
\* only to a token signed with SECRET_KEY, not expired, with a sub that is a
\* key of db_users; every other token is answered 401.
C1_Claim ==
    [][Answered("me") =>
        LET t == resp'.req.token
            good == /\ t.key = SECRET_KEY
                    /\ t.exp >= now
                    /\ t.sub # Null
                    /\ t.sub \in DOMAIN db_users
        IN  /\ resp'.status = 200 => good /\ resp'.user = User(db_users[t.sub])
            /\ ~good => resp'.status = 401 /\ resp'.user = NoUser]_vars

\* C2: the guest list (05-security) and the audit log (security) go only to a
\* user whose stored role is the required one; an authenticated user with
\* another stored role is answered 403, and every answer but 200 is empty.
C2_Theorem ==
    [][Answered("guest-list") \/ Answered("audit-log") =>
        LET t == resp'.req.token
            authenticated == /\ t.key = SECRET_KEY
                             /\ t.exp >= now
                             /\ TokenData_valid(app, t.role)
                             /\ t.sub \in DOMAIN db_users
        IN  /\ resp'.status = 200 =>
                 authenticated /\ db_users[t.sub].role \in RequiredRoles(app)
            /\ authenticated /\ db_users[t.sub].role \notin RequiredRoles(app) =>
                 resp'.status = 403
            /\ resp'.status # 200 => resp'.names = {} /\ resp'.log = <<>>]_vars

\* an authenticated user with the default role was refused with 403, although
\* the role claim of the token names the required role
C2_Witness ==
    /\ resp.op \in {"guest-list", "audit-log"}
    /\ resp.status = 403
    /\ resp.req.token.sub \in DOMAIN db_users
    /\ db_users[resp.req.token.sub].role = DefaultRole(app)
    /\ resp.req.token.role \in RequiredRoles(app)

\* the token of a successful login is accepted until the clock is past its
\* exp, and yields the entry of the user who logged in
C10_TokenAccepted ==
    resp.op = "login" /\ resp.status = 200 /\ now <= resp.token.exp =>
        /\ resp.req.username \in DOMAIN db_users
        /\ get_current_user(resp.token) =
              [status |-> 200, user |-> db_users[resp.req.username]]

Requester(token) ==
    IF bank_get_current_user(token).status = 200 THEN token.username ELSE Null

\* the ids of the accounts in user_accounts[users_db[username].id]
OwnAccountIds(username) ==
    IF users_db[username].id \in DOMAIN user_accounts
    THEN {user_accounts[users_db[username].id][i].id :
              i \in DOMAIN user_accounts[users_db[username].id]}
    ELSE {}

\* every account there is, as <<user id, position in the user's list>>
AllAccounts(accounts) ==
    UNION {{<<uid, i>> : i \in DOMAIN accounts[uid]} : uid \in DOMAIN accounts}

AccountExists(accounts, account_id) ==
    \E p \in AllAccounts(accounts) : accounts[p[1]][p[2]].id = account_id

\* the balance of the account with this id
BalanceOf(accounts, account_id) ==
    LET p == CHOOSE q \in AllAccounts(accounts) : accounts[q[1]][q[2]].id = account_id
    IN  accounts[p[1]][p[2]].balance

RECURSIVE SumBalances(_, _)
SumBalances(accounts, ps) ==
    IF ps = {} THEN 0
    ELSE LET p == CHOOSE q \in ps : TRUE
         IN  accounts[p[1]][p[2]].balance + SumBalances(accounts, ps \ {p})

\* the sum of all account balances
TotalBalance(accounts) == SumBalances(accounts, AllAccounts(accounts))

RECURSIVE TransferredFrom(_, _)
\* the amounts of the completed transfers out of one account
TransferredFrom(transactions, account_id) ==
    IF transactions = <<>> THEN 0
    ELSE (IF /\ Head(transactions).from_account_id = account_id
             /\ Head(transactions).status = "completed"
          THEN Head(transactions).amount ELSE 0)
         + TransferredFrom(Tail(transactions), account_id)

\* C3: once failed_login_attempts has reached 5 the user is inactive; an
\* inactive user stays inactive, login_user gives it no token and answers
\* its correct password with 403; a login that fails on the password of an
\* existing user adds one to the counter and a successful login sets it to 0.
C3_Locked ==
    \A u \in DOMAIN users_db :
        users_db[u].failed_login_attempts >= LockThreshold => ~users_db[u].is_active

C3_Step ==
    /\ \A u \in DOMAIN users_db :
           ~users_db[u].is_active =>
               /\ u \in DOMAIN users_db' /\ ~users_db'[u].is_active
               /\ (Answered("login") /\ resp'.username = u) =>
                      /\ resp'.token = NoToken
                      /\ resp'.status \in {401, 403, 429}
                      /\ (/\ resp'.status # 429
                          /\ users_db[u].hashed_password = get_password_hash(resp'.password))
                             => resp'.status = 403
    /\ (Answered("login") /\ resp'.status = 200) =>
           /\ resp'.token # NoToken
           /\ users_db[resp'.username].is_active
           /\ users_db'[resp'.username].failed_login_attempts = 0
    /\ (Answered("login") /\ resp'.status = 401 /\ resp'.username \in DOMAIN users_db) =>
           users_db'[resp'.username].failed_login_attempts =
               users_db[resp'.username].failed_login_attempts + 1

C3_Theorem == [](C3_Locked) /\ [][C3_Step]_vars

\* alice is locked after five failures and her correct password was answered 403
C3_Witness ==
    /\ resp.op = "login" /\ resp.status = 403
    /\ resp.username = "alice" /\ resp.password = AlicePassword
    /\ "alice" \in DOMAIN users_db
    /\ ~users_db["alice"].is_active
    /\ users_db["alice"].failed_login_attempts >= LockThreshold

\* C4: transfer_funds debits an account or records a transaction only when
\* the bearer token authenticates an active user whose mfa_enabled is True;
\* for an authenticated, active user without MFA the answer is 403 and the
\* accounts and transactions_db stay as they are; nothing but a completed
\* transfer adds to transactions_db.
C4_Results ==
    \A token \in BankBearerTokens, transfer \in TransferRequests, limited \in BOOLEAN :
        LET result == transfer_funds_result(token, transfer, limited)
            u == Requester(token)
        IN  /\ (\/ result.status = 200
                \/ result.user_accounts # user_accounts
                \/ result.transactions_db # transactions_db)
               => (u # Null /\ users_db[u].is_active /\ users_db[u].mfa_enabled)
            /\ (u # Null /\ users_db[u].is_active /\ ~users_db[u].mfa_enabled)
               => /\ result.status = 403
                  /\ result.user_accounts = user_accounts
                  /\ result.transactions_db = transactions_db

C4_Step ==
    transactions_db' # transactions_db => (Answered("transfer") /\ resp'.status = 200)

C4_Theorem == [](C4_Results) /\ [][C4_Step]_vars

\* a registered, active user without MFA asked for a transfer and got 403
C4_Witness ==
    /\ resp.op = "transfer" /\ resp.status = 403 /\ resp.detail = "mfa_required"
    /\ \E u \in DOMAIN users_db :
           /\ users_db[u].is_active /\ ~users_db[u].mfa_enabled
           /\ \E p \in AllAccounts(user_accounts) :
                  /\ p[1] = users_db[u].id
                  /\ user_accounts[p[1]][p[2]].balance >= 3000

\* C5: for a request that reaches the handler, an account id that is not in
\* user_accounts[current_user.id] is answered 403; get_account_balance
\* discloses a balance only of an account of the requester, and a transfer
\* changes no balance but that of the requester's account it names.
C5_Theorem ==
    /\ \A token \in BankBearerTokens, account_id \in AccountIds :
           LET result == get_account_balance_result(token, account_id)
               current_user == get_current_active_user(token)
           IN  /\ (/\ current_user.status = 200
                   /\ account_id \notin OwnAccountIds(current_user.username))
                  => (result.status = 403 /\ result.balance = -1)
               /\ result.status = 200
                  => /\ current_user.status = 200
                     /\ account_id \in OwnAccountIds(current_user.username)
                     /\ result.balance = BalanceOf(user_accounts, account_id)
               /\ result.status # 200 => result.balance = -1
    /\ \A token \in BankBearerTokens, transfer \in TransferRequests, limited \in BOOLEAN :
           LET result == transfer_funds_result(token, transfer, limited)
               current_user == get_current_active_user(token)
           IN  /\ (/\ current_user.status = 200
                   /\ users_db[current_user.username].mfa_enabled
                   /\ transfer.amount > 0 /\ transfer.amount <= MaxTransferAmount
                   /\ ~limited
                   /\ transfer.from_account_id \notin OwnAccountIds(current_user.username))
                  => /\ result.status = 403
                     /\ result.user_accounts = user_accounts
                     /\ result.transactions_db = transactions_db
               /\ \A p \in AllAccounts(user_accounts) :
                      result.user_accounts[p[1]][p[2]].balance
                          # user_accounts[p[1]][p[2]].balance
                      => /\ current_user.status = 200
                         /\ p[1] = users_db[current_user.username].id
                         /\ user_accounts[p[1]][p[2]].id = transfer.from_account_id

\* a user with MFA named the account of the other user as the source: 403
C5_Witness ==
    /\ resp.op = "transfer" /\ resp.status = 403 /\ resp.detail = "access_denied"
    /\ Cardinality(DOMAIN user_accounts) = 2
    /\ transactions_db = <<>>

\* C6: every account balance is >= 0; a transfer that reaches the balance
\* check with an amount above the balance of the source account is answered
\* 400 and changes nothing; a completed transfer lowers the balance of the
\* source account by its amount.
C6_Theorem ==
    /\ \A p \in AllAccounts(user_accounts) : user_accounts[p[1]][p[2]].balance >= 0
    /\ \A token \in BankBearerTokens, transfer \in TransferRequests, limited \in BOOLEAN :
           LET result == transfer_funds_result(token, transfer, limited)
               current_user == get_current_active_user(token)
           IN  /\ (/\ current_user.status = 200
                   /\ users_db[current_user.username].mfa_enabled
                   /\ transfer.amount > 0 /\ transfer.amount <= MaxTransferAmount
                   /\ ~limited
                   /\ transfer.from_account_id \in OwnAccountIds(current_user.username)
                   /\ transfer.amount > BalanceOf(user_accounts, transfer.from_account_id))
                  => /\ result.status = 400
                     /\ result.detail = "insufficient_funds"
                     /\ result.user_accounts = user_accounts
                     /\ result.transactions_db = transactions_db
               /\ result.status = 200
                  => /\ BalanceOf(result.user_accounts, transfer.from_account_id)
                         = BalanceOf(user_accounts, transfer.from_account_id)
                           - transfer.amount
                     /\ BalanceOf(result.user_accounts, transfer.from_account_id) >= 0

\* an account was emptied by a transfer and the next transfer was refused
C6_Witness ==
    /\ resp.op = "transfer" /\ resp.status = 400 /\ resp.detail = "insufficient_funds"
    /\ transactions_db # <<>>
    /\ \E p \in AllAccounts(user_accounts) : user_accounts[p[1]][p[2]].balance = 0

\* C7: a completed transfer of amount a from account X to an existing
\* account Y lowers the balance of X by a, raises the balance of Y by a,
\* and leaves the sum of all balances as it was.
C7_Claim ==
    [][(Answered("transfer") /\ resp'.status = 200) =>
          LET t == transactions_db'[Len(transactions_db')]
          IN  AccountExists(user_accounts, t.to_account_id) =>
                  /\ BalanceOf(user_accounts', t.from_account_id)
                         = BalanceOf(user_accounts, t.from_account_id) - t.amount
                  /\ BalanceOf(user_accounts', t.to_account_id)
                         = BalanceOf(user_accounts, t.to_account_id) + t.amount
                  /\ TotalBalance(user_accounts') = TotalBalance(user_accounts)]_vars

\* C8: the completed transfers out of one account (all of them are made
\* within the same ten minutes, so within one day) never add up to more than
\* the daily_limit of the account.
C8_Claim ==
    \A p \in AllAccounts(user_accounts) :
        TransferredFrom(transactions_db, user_accounts[p[1]][p[2]].id)
            <= user_accounts[p[1]][p[2]].daily_limit

\* C9: verify_mfa turns a user's mfa_enabled on only for the calling user,
\* with a challenge that is in active_mfa_challenges, carries the caller's
\* id, has not expired and holds the submitted code; a challenge that was
\* verified or found expired is gone afterwards, and a deleted challenge
\* never returns; a wrong code for an unexpired challenge of the caller, or
\* the challenge of another user, leaves challenges and users as they are;
\* nothing but a successful verify_mfa turns mfa_enabled on, and it uses up
\* a challenge of that user.
C9_Results ==
    \A token \in BankBearerTokens, challenge_id \in ChallengeIds,
       code \in MfaCodes, method \in MfaMethods :
        LET result == verify_mfa_result(token, challenge_id, code, method)
            u == Requester(token)
            known == challenge_id \in DOMAIN active_mfa_challenges
            challenge == active_mfa_challenges[challenge_id]
        IN  /\ \A v \in DOMAIN users_db :
                   (result.users_db[v].mfa_enabled /\ ~users_db[v].mfa_enabled)
                   => /\ v = u
                      /\ users_db[u].is_active
                      /\ known
                      /\ challenge.user_id = users_db[u].id
                      /\ now <= challenge.expires_at
                      /\ code = challenge.code
            /\ (result.status = 200 \/ result.detail = "challenge_expired")
               => challenge_id \notin DOMAIN result.active_mfa_challenges
            /\ (/\ u # Null
                /\ users_db[u].is_active
                /\ known
                /\ \/ challenge.user_id # users_db[u].id
                   \/ now <= challenge.expires_at /\ code # challenge.code)
               => /\ result.status \in {400, 403}
                  /\ result.users_db = users_db
                  /\ result.active_mfa_challenges = active_mfa_challenges

C9_Step ==
    /\ \A v \in DOMAIN users_db :
           (users_db'[v].mfa_enabled /\ ~users_db[v].mfa_enabled)
           => /\ Answered("verify_mfa") /\ resp'.status = 200
              /\ \E c \in DOMAIN active_mfa_challenges \ DOMAIN active_mfa_challenges' :
                     active_mfa_challenges[c].user_id = users_db[v].id
    /\ \A n \in 1..challenges_made :
           ChallengeId(n) \notin DOMAIN active_mfa_challenges
           => ChallengeId(n) \notin DOMAIN active_mfa_challenges'

C9_Theorem == [](C9_Results) /\ [][C9_Step]_vars

\* a user verified the challenge of setup_mfa: MFA is on, the challenge is gone
C9_Witness ==
    /\ resp.op = "verify_mfa" /\ resp.status = 200
    /\ challenges_made >= 1
    /\ active_mfa_challenges = <<>>
    /\ \E u \in DOMAIN users_db : users_db[u].mfa_enabled

\* C11: the access_token of a successful login_user, presented as bearer
\* token before it expires, is accepted by get_current_user and yields the
\* users_db entry of the user who logged in.
C11_Claim ==
    (/\ resp.op = "login" /\ resp.status = 200
     /\ now <= resp.token.exp)
    => /\ bank_get_current_user(resp.token).status = 200
       /\ bank_get_current_user(resp.token).username = resp.username

(***************************************************************************)
(* Further claims about the role-based demos (SpecRbac).                   *)
(***************************************************************************)
\* C12: register_user, once the body has passed validation, answers a
\* username that is in db_users with 400 and leaves db_users as it is; a new
\* username gets exactly one new entry under that username, with the role
\* guest (05-security) or customer (security) and the hash of the password
\* of the request, and every other entry stays as it was.
C12_Step ==
    (Answered("register") /\ resp'.status # 422) =>
        LET username == resp'.req.username
        IN  IF username \in DOMAIN db_users
            THEN /\ resp'.status = 400
                 /\ db_users' = db_users
            ELSE /\ resp'.status = 201
                 /\ DOMAIN db_users' = DOMAIN db_users \cup {username}
                 /\ \A u \in DOMAIN db_users : db_users'[u] = db_users[u]
                 /\ db_users'[username].username = username
                 /\ db_users'[username].email = resp'.req.email
                 /\ db_users'[username].role =
                        (IF app = "05-security" THEN "guest" ELSE "customer")

C12_Theorem == [][C12_Step]_vars

\* a second registration of alice, with another e-mail and password, was
\* answered 400 and the entry of the first registrant is still there
C12_Witness ==
    /\ resp.op = "register" /\ resp.status = 400
    /\ resp.req.username \in DOMAIN db_users
    /\ db_users[resp.req.username].email # resp.req.email
    /\ db_users[resp.req.username].hashed_password
           # get_password_hash(resp.req.password)
    /\ db_users[resp.req.username].role = DefaultRole(app)

\* every password a request carries
AllPasswords(a) == {f.password : f \in RegisterForms} \cup LoginPasswords(a)

\* the strings in the entries of an audit log
LogStrings(log) ==
    UNION {{log[i].event_type, log[i].username}
               \cup UNION {{d[1], d[2]} : d \in log[i].details} : i \in DOMAIN log}

\* the strings the body of the last response carries: the user, the claims of
\* the token, the guest list, the audit log (resp.req is the request)
ResponseStrings ==
    {resp.user.username, resp.user.email, resp.user.role}
    \cup {resp.token.sub, resp.token.username, resp.token.role}
    \cup resp.names
    \cup LogStrings(resp.log)

\* C13: an entry of db_users has the fields username, email, role and
\* hashed_password, the last a bcrypt digest and none of them a plain
\* password; the user in a response has no hashed_password field, and no
\* string of a response or of an audit_log entry is a password of a request
\* or names a password field.
C13_Theorem ==
    /\ \A u \in DOMAIN db_users :
           /\ DOMAIN db_users[u] = {"username", "email", "role", "hashed_password"}
           /\ db_users[u].hashed_password[1] = "$2b$"
           /\ {db_users[u].username, db_users[u].email, db_users[u].role}
                  \cap AllPasswords(app) = {}
    /\ DOMAIN resp.user = {"username", "email", "role"}
    /\ ResponseStrings \cap (AllPasswords(app) \cup {"password", "hashed_password"}) = {}
    /\ LogStrings(audit_log)
           \cap (AllPasswords(app) \cup {"password", "hashed_password"}) = {}

\* a registration was answered with the new user, whose hash is in db_users
C13_Witness ==
    /\ resp.op = "register" /\ resp.status = 201
    /\ resp.user.username \in DOMAIN db_users
    /\ db_users[resp.user.username].hashed_password
           = get_password_hash(resp.req.password)

(***************************************************************************)
(* Lookups in the mock data: src/01-introduction/main.py,                  *)
(* src/06-async/main.py, src/07-async/main.py and                          *)
(* src/05-request-response/main.py.  A handler answers with its status and *)
(* with the error its body names, Null when the body is the entity.        *)
(***************************************************************************)
LookupApps == {"01-introduction", "06-async", "07-async", "05-request-response"}

\* the keys of coffee_menu
coffee_menu == 1..5
\* the keys of fake_db["restaurants"]
restaurants == {"resto_123", "resto_456", "resto_789", "resto_101", "resto_202"}
\* the ids of db_client.db["users"]
async_users == {1, 2}
\* the post ids get_post_details knows
mock_posts == {98765, 98766, 98767}
\* the usernames get_user_profile knows
mock_profiles == {"alexj_photos", "travel_sarah", "techguru_mike"}

\* the identifiers the clients ask for
CoffeeIds == 0..MaxLookupId
RestaurantIds == restaurants \cup {"resto_999", "resto", "123"}
AsyncUserIds == 0..MaxLookupId
PostIds == {0, 1, 2, 98764, 98768, 98769} \cup mock_posts
ProfileNames == mock_profiles \cup {"al", "nobody_here", "alexj"}

LookupResponse(op, id, status, error) ==
    [op |-> op, id |-> <<id>>, status |-> status, error |-> error]

\* a handler that returns a dict answers 200, whatever the dict says
get_coffee_by_id(coffee_id) ==
    /\ app = "01-introduction"
    /\ resp' = IF coffee_id \in coffee_menu
               THEN LookupResponse("get_coffee_by_id", coffee_id, 200, Null)
               ELSE LookupResponse("get_coffee_by_id", coffee_id, 200,
                        "Sorry, we don't have that coffee on our menu!")
    /\ UNCHANGED <<app, chatVars, now, rbacVars, bankVars>>

\* fake_db["restaurants"].get(restaurant_id, {"error": "Restaurant not found"})
get_restaurant_info(restaurant_id) ==
    /\ app = "06-async"
    /\ resp' = IF restaurant_id \in restaurants
               THEN LookupResponse("get_restaurant_info", restaurant_id, 200, Null)
               ELSE LookupResponse("get_restaurant_info", restaurant_id, 200,
                        "Restaurant not found")
    /\ UNCHANGED <<app, chatVars, now, rbacVars, bankVars>>

\* user = await db.fetch_one("users", user_id)
get_user(user_id) ==
    /\ app = "07-async"
    /\ resp' = IF user_id \in async_users
               THEN LookupResponse("get_user", user_id, 200, Null)
               ELSE LookupResponse("get_user", user_id, 200, "User not found")
    /\ UNCHANGED <<app, chatVars, now, rbacVars, bankVars>>

\* Path(..., ge=1); InstaConnectError is answered by its exception handler
\* with HTTP_400_BAD_REQUEST
get_post_details(post_id) ==
    /\ app = "05-request-response"
    /\ resp' = IF post_id < 1
               THEN LookupResponse("get_post_details", post_id, 422, "validation")
               ELSE IF post_id \notin mock_posts
               THEN LookupResponse("get_post_details", post_id, 400, "POST_NOT_FOUND")
               ELSE LookupResponse("get_post_details", post_id, 200, Null)
    /\ UNCHANGED <<app, chatVars, now, rbacVars, bankVars>>

\* Path(..., min_length=3, max_length=30); HTTPException(status_code=404)
get_user_profile(username) ==
    /\ app = "05-request-response"
    /\ resp' = IF Len(username) < 3 \/ Len(username) > 30
               THEN LookupResponse("get_user_profile", username, 422, "validation")
               ELSE IF username \notin mock_profiles
               THEN LookupResponse("get_user_profile", username, 404, "not found")
               ELSE LookupResponse("get_user_profile", username, 200, Null)
    /\ UNCHANGED <<app, chatVars, now, rbacVars, bankVars>>

InitLookup ==
    /\ app \in LookupApps
    /\ now = 0
    /\ resp = NoResponse
    /\ db_users = <<>>
    /\ audit_log = <<>>
    /\ login_hits = 0
    /\ users_db = <<>>
    /\ user_accounts = <<>>
    /\ transactions_db = <<>>
    /\ active_mfa_challenges = <<>>
    /\ challenges_made = 0
    /\ active_connections = <<>>
    /\ handlers = <<>>

NextLookup ==
    \/ \E coffee_id \in CoffeeIds : get_coffee_by_id(coffee_id)
    \/ \E restaurant_id \in RestaurantIds : get_restaurant_info(restaurant_id)
    \/ \E user_id \in AsyncUserIds : get_user(user_id)
    \/ \E post_id \in PostIds : get_post_details(post_id)
    \/ \E username \in ProfileNames : get_user_profile(username)

SpecLookup == InitLookup /\ [][NextLookup]_vars

\* the identifiers a lookup finds in its data
LookupData(op) ==
    IF op = "get_coffee_by_id" THEN {<<i>> : i \in coffee_menu}
    ELSE IF op = "get_restaurant_info" THEN {<<i>> : i \in restaurants}
    ELSE IF op = "get_user" THEN {<<i>> : i \in async_users}
    ELSE IF op = "get_post_details" THEN {<<i>> : i \in mock_posts}
    ELSE {<<i>> : i \in mock_profiles}

\* C14: a lookup whose identifier passes validation and is not in the data
\* of the handler is answered 404.
C14_Claim ==
    (/\ resp.op \in {"get_coffee_by_id", "get_restaurant_info", "get_user",
                     "get_post_details", "get_user_profile"}
     /\ resp.status # 422
     /\ resp.id \notin LookupData(resp.op))
    => resp.status = 404

\* the registration form a response of register_user answers: the forms
\* that pass validation have distinct usernames
RegisteredForm(username) ==
    {f \in BankRegisterForms : BankUserCreate_valid(f) /\ f.username = username}

\* C15 (as stated): a handler is a stateless transformation of its request,
\* so the same registration served twice in a row by register_user is answered
\* the same way, whatever was served before it.
C15_Claim ==
    [][(/\ Answered("register")
        /\ resp.op = "register"
        /\ RegisteredForm(resp.username) # {}
        /\ resp'.username = resp.username
        /\ resp.status \notin {422, 429}
        /\ resp'.status \notin {422, 429})
       => resp'.status = resp.status]_vars

\* C15 (amended): register_user is a transformation of its request and of
\* users_db, the state earlier requests left behind: a registration that
\* passes validation and the rate limiter is answered 201 and stored when no
\* earlier request registered its username or e-mail, and 400 with users_db
\* and user_accounts untouched when one did.
C15_Step ==
    (Answered("register") /\ resp'.status \notin {422, 429})
    => \A f \in RegisteredForm(resp'.username) :
          IF \/ f.username \in DOMAIN users_db
             \/ \E u \in DOMAIN users_db : users_db[u].email = f.email
          THEN /\ resp'.status = 400
               /\ users_db' = users_db
               /\ user_accounts' = user_accounts
          ELSE /\ resp'.status = 201
               /\ DOMAIN users_db' = DOMAIN users_db \cup {f.username}
               /\ users_db'[f.username].email = f.email
               /\ users_db'[f.username].id = Cardinality(DOMAIN users_db) + 1
               /\ \A u \in DOMAIN users_db : users_db'[u] = users_db[u]

C15_Theorem == [][C15_Step]_vars

\* a registration refused because an earlier request had registered the
\* username, with a second user registered as well
C15_Witness ==
    /\ resp.op = "register"
    /\ resp.status = 400
    /\ resp.username \in DOMAIN users_db
    /\ Cardinality(DOMAIN users_db) = 2

(***************************************************************************)
(* The chat rooms of 06-async, 07-streaming and 08-streaming.               *)
(*                                                                          *)
(* Every websocket is served by its own endpoint coroutine; the coroutines  *)
(* share manager.active_connections and run interleaved on one event loop:  *)
(* a coroutine runs alone until it awaits.  One room is modelled; for       *)
(* 07-streaming and 08-streaming it is the list of one room_name, the       *)
(* lists of different rooms being independent.  A send to a listed          *)
(* websocket succeeds.                                                      *)
(***************************************************************************)
ChatApps == {"06-async", "07-streaming", "08-streaming"}
Sockets == {"ws1", "ws2", "ws3"}

Broadcasting == {"broadcast_joined", "broadcast_message", "broadcast_left"}

\* what the endpoint does when the broadcast it awaits returns
after_broadcast(pc) == IF pc = "broadcast_left" THEN "done" ELSE "receive"

SocketsOf(list) == {list[i] : i \in 1..Len(list)}

\* a coroutine that is not inside a broadcast
Waiting(pc) ==
    [pc |-> pc, cursor |-> 0, delivered |-> [c \in Sockets |-> 0], stayed |-> {}]

\* list.remove(websocket): the first occurrence is taken out, the rest
\* moves one place to the front
list_remove(list, websocket) ==
    LET i == CHOOSE i \in 1..Len(list) :
                 /\ list[i] = websocket
                 /\ \A j \in 1..(i - 1) : list[j] # websocket
    IN  [k \in 1..(Len(list) - 1) |-> IF k < i THEN list[k] ELSE list[k + 1]]

\* one turn of `for connection in self.active_connections:
\*                  await connection.send_text(message)`.
\* The list iterator keeps an index into the list; each turn reads the list
\* as it is now, sends to the element at the index and suspends in the send,
\* or ends the loop when the index has reached the length of the list.
\* delivered counts the sends of this call, stayed holds the websockets that
\* have been in the list since the call began.
send_next(h, list) ==
    IF h.cursor < Len(list)
    THEN [h EXCEPT !.cursor = @ + 1,
                   !.delivered[list[h.cursor + 1]] = @ + 1]
    ELSE Waiting(after_broadcast(h.pc))

\* a call of broadcast: no await lies between the call and its first send
start_broadcast(kind, list) ==
    send_next([pc |-> kind, cursor |-> 0, delivered |-> [c \in Sockets |-> 0],
               stayed |-> SocketsOf(list)], list)

\* await manager.connect(websocket); await manager.broadcast("A new user ...")
connect(websocket) ==
    /\ app \in ChatApps
    /\ websocket \notin DOMAIN handlers
    /\ active_connections' = Append(active_connections, websocket)
    /\ handlers' = [w \in DOMAIN handlers \cup {websocket} |->
                       IF w = websocket
                       THEN start_broadcast("broadcast_joined", active_connections')
                       ELSE handlers[w]]
    /\ UNCHANGED <<app, now, resp, rbacVars, bankVars>>

\* the broadcast of the endpoint of websocket resumes from its send
broadcast(websocket) ==
    /\ app \in ChatApps
    /\ websocket \in DOMAIN handlers
    /\ handlers[websocket].pc \in Broadcasting
    /\ handlers' = [handlers EXCEPT
                       ![websocket] = send_next(@, active_connections)]
    /\ UNCHANGED <<app, now, resp, rbacVars, bankVars, active_connections>>

\* data = await websocket.receive_text(); await manager.broadcast(...)
receive_text(websocket) ==
    /\ app \in ChatApps
    /\ websocket \in DOMAIN handlers
    /\ handlers[websocket].pc = "receive"
    /\ handlers' = [handlers EXCEPT
                       ![websocket] = start_broadcast("broadcast_message",
                                                      active_connections)]
    /\ UNCHANGED <<app, now, resp, rbacVars, bankVars, active_connections>>

\* except WebSocketDisconnect: manager.disconnect(websocket);
\*                             await manager.broadcast("A user has left ...")
disconnect(websocket) ==
    /\ app \in ChatApps
    /\ websocket \in DOMAIN handlers
    /\ handlers[websocket].pc = "receive"
    /\ active_connections' = list_remove(active_connections, websocket)
    /\ handlers' = [w \in DOMAIN handlers |->
                       IF w = websocket
                       THEN start_broadcast("broadcast_left", active_connections')
                       ELSE [handlers[w] EXCEPT !.stayed = @ \ {websocket}]]
    /\ UNCHANGED <<app, now, resp, rbacVars, bankVars>>

InitChat ==
    /\ app \in ChatApps
    /\ now = 0
    /\ resp = NoResponse
    /\ db_users = <<>>
    /\ audit_log = <<>>
    /\ login_hits = 0
    /\ users_db = <<>>
    /\ user_accounts = <<>>
    /\ transactions_db = <<>>
    /\ active_mfa_challenges = <<>>
    /\ challenges_made = 0
    /\ active_connections = <<>>
    /\ handlers = <<>>

NextChat ==
    \/ \E websocket \in Sockets : connect(websocket)
    \/ \E websocket \in Sockets : broadcast(websocket)
    \/ \E websocket \in Sockets : receive_text(websocket)
    \/ \E websocket \in Sockets : disconnect(websocket)

SpecChat == InitChat /\ [][NextChat]_vars

\* C16: when a broadcast returns, every websocket that was in the connection
\* list for the whole duration of the call has been sent the message exactly
\* once, also when other clients connected or disconnected while the
\* broadcast was suspended in a send.
C16_Claim ==
    [][\A w \in DOMAIN handlers :
          (handlers[w].pc \in Broadcasting /\ handlers'[w].pc \notin Broadcasting)
          => \A c \in handlers[w].stayed : handlers[w].delivered[c] = 1]_vars

(***************************************************************************)
(* 03-pydantic: POST /recipes/validated/ with a ValidatedRecipe body.       *)
(*                                                                          *)
(* name, description, chef_email and difficulty of the bodies are well      *)
(* formed; the integer fields vary.                                         *)
(***************************************************************************)
MaxPrepTime == 245
MaxCookTime == 485
MaxServings == 25

\* a body every check accepts
GoodRecipe ==
    [prep_time_minutes |-> 30, cook_time_minutes |-> 60, servings |-> 4,
     calories_per_serving |-> 400]

\* the bodies posted: the good one with one field changed, and two bodies
\* that are long in both times
RecipeBodies ==
    {[GoodRecipe EXCEPT !.prep_time_minutes = v] : v \in 0..MaxPrepTime}
    \cup {[GoodRecipe EXCEPT !.cook_time_minutes = v] : v \in 0..MaxCookTime}
    \cup {[GoodRecipe EXCEPT !.servings = v] : v \in 0..MaxServings}
    \cup {[GoodRecipe EXCEPT !.calories_per_serving = v] : v \in {50, 51, 2000, 2001}}
    \cup {[GoodRecipe EXCEPT !.prep_time_minutes = 150, !.cook_time_minutes = v] :
              v \in {450, 451}}

\* @validator('prep_time_minutes'): if v > 180: raise ValueError
prep_time_reasonable(v) == ~(v > 180)

\* @validator('cook_time_minutes'): total_time = v + values['prep_time_minutes'];
\* if total_time > 600: raise ValueError
cook_time_makes_sense(v, prep_time_minutes) == ~(v + prep_time_minutes > 600)

\* the Field constraints and the validators of ValidatedRecipe
ValidatedRecipe(recipe) ==
    /\ recipe.prep_time_minutes > 5
    /\ recipe.prep_time_minutes <= 240
    /\ prep_time_reasonable(recipe.prep_time_minutes)
    /\ recipe.cook_time_minutes > 1
    /\ recipe.cook_time_minutes <= 480
    /\ cook_time_makes_sense(recipe.cook_time_minutes, recipe.prep_time_minutes)
    /\ recipe.servings > 1
    /\ recipe.servings <= 20
    /\ recipe.calories_per_serving > 50
    /\ recipe.calories_per_serving <= 2000

\* a body that fails validation is answered 422 before the handler runs
create_validated_recipe(recipe) ==
    /\ app = "03-pydantic"
    /\ resp' = [op |-> "create_validated_recipe", recipe |-> recipe,
                status |-> IF ValidatedRecipe(recipe) THEN 200 ELSE 422]
    /\ UNCHANGED <<app, chatVars, now, rbacVars, bankVars>>

InitRecipe ==
    /\ app = "03-pydantic"
    /\ now = 0
    /\ resp = NoResponse
    /\ db_users = <<>>
    /\ audit_log = <<>>
    /\ login_hits = 0
    /\ users_db = <<>>
    /\ user_accounts = <<>>
    /\ transactions_db = <<>>
    /\ active_mfa_challenges = <<>>
    /\ challenges_made = 0
    /\ active_connections = <<>>
    /\ handlers = <<>>

NextRecipe == \E recipe \in RecipeBodies : create_validated_recipe(recipe)

SpecRecipe == InitRecipe /\ [][NextRecipe]_vars

\* the body differs from the good one in no field but the named one
OnlyChanged(recipe, field) ==
    \A g \in DOMAIN GoodRecipe : g # field => recipe[g] = GoodRecipe[g]

\* C17: with all other fields valid, ValidatedRecipe accepts
\* prep_time_minutes exactly from 5 to 240, cook_time_minutes exactly from
\* 1 to 480 and servings exactly from 1 to 20, the ranges the field
\* descriptions state.
C17_Claim ==
    resp.op = "create_validated_recipe"
    => /\ OnlyChanged(resp.recipe, "prep_time_minutes")
          => (resp.status = 200 <=> resp.recipe.prep_time_minutes \in 5..240)
       /\ OnlyChanged(resp.recipe, "cook_time_minutes")
          => (resp.status = 200 <=> resp.recipe.cook_time_minutes \in 1..480)
       /\ OnlyChanged(resp.recipe, "servings")
          => (resp.status = 200 <=> resp.recipe.servings \in 1..20)

====
